---- MODULE Spec2Model ----
(***************************************************************************)
(* Model of app.py: the Flask route index() served by concurrent request   *)
(* threads over the process-wide dictionary ai_cache.  Text is a sequence  *)
(* of Unicode code points, so that strip, lower, slicing and substring     *)
(* search are computed as the Python code computes them.                   *)
(***************************************************************************)
EXTENDS Integers, Sequences, FiniteSets, TLC

VARIABLES request, pc, locals, gen, response, ai_cache

vars == <<request, pc, locals, gen, response, ai_cache>>

(* ------------------------------ bounds --------------------------------- *)

\* number of requests the process serves (each on its own thread)
NumReq == 2

\* number of distinct texts the explanation backend may answer with
NumResp == 2

Requests == 1..NumReq

(* --------------------------- string helpers ---------------------------- *)

\* A character is its Unicode code point; a str is a sequence of them.

\* text[:120] in index()
PrefixLen == 120

\* the code points of the intervals <<first, last>> of a sequence
CodePoints(intervals) ==
  UNION { intervals[k][1]..intervals[k][2] : k \in 1..Len(intervals) }

\* characters removed by str.strip(): the characters str.isspace() accepts
Whitespace ==
  CodePoints(
  << <<9, 13>>, <<28, 32>>, <<133, 133>>, <<160, 160>>, <<5760, 5760>>, <<8192, 8202>>,
     <<8232, 8233>>, <<8239, 8239>>, <<8287, 8287>>, <<12288, 12288>> >>)

\* runs <<first, last, step, offset>> of the simple lower-case mapping of
\* str.lower(): every step-th code point c of first..last maps to c + offset
LowerRuns ==
  << <<65, 90, 1, 32>>, <<192, 214, 1, 32>>, <<216, 222, 1, 32>>, <<256, 302, 2, 1>>,
     <<306, 310, 2, 1>>, <<313, 327, 2, 1>>, <<330, 374, 2, 1>>, <<376, 376, 1, -121>>,
     <<377, 381, 2, 1>>, <<385, 385, 1, 210>>, <<386, 388, 2, 1>>, <<390, 390, 1, 206>>,
     <<391, 391, 1, 1>>, <<393, 394, 1, 205>>, <<395, 395, 1, 1>>, <<398, 398, 1, 79>>,
     <<399, 399, 1, 202>>, <<400, 400, 1, 203>>, <<401, 401, 1, 1>>, <<403, 403, 1, 205>>,
     <<404, 404, 1, 207>>, <<406, 406, 1, 211>>, <<407, 407, 1, 209>>, <<408, 408, 1, 1>>,
     <<412, 412, 1, 211>>, <<413, 413, 1, 213>>, <<415, 415, 1, 214>>, <<416, 420, 2, 1>>,
     <<422, 422, 1, 218>>, <<423, 423, 1, 1>>, <<425, 425, 1, 218>>, <<428, 428, 1, 1>>,
     <<430, 430, 1, 218>>, <<431, 431, 1, 1>>, <<433, 434, 1, 217>>, <<435, 437, 2, 1>>,
     <<439, 439, 1, 219>>, <<440, 440, 1, 1>>, <<444, 444, 1, 1>>, <<452, 452, 1, 2>>,
     <<453, 453, 1, 1>>, <<455, 455, 1, 2>>, <<456, 456, 1, 1>>, <<458, 458, 1, 2>>,
     <<459, 475, 2, 1>>, <<478, 494, 2, 1>>, <<497, 497, 1, 2>>, <<498, 500, 2, 1>>,
     <<502, 502, 1, -97>>, <<503, 503, 1, -56>>, <<504, 542, 2, 1>>, <<544, 544, 1, -130>>,
     <<546, 562, 2, 1>>, <<570, 570, 1, 10795>>, <<571, 571, 1, 1>>, <<573, 573, 1, -163>>,
     <<574, 574, 1, 10792>>, <<577, 577, 1, 1>>, <<579, 579, 1, -195>>, <<580, 580, 1, 69>>,
     <<581, 581, 1, 71>>, <<582, 590, 2, 1>>, <<880, 882, 2, 1>>, <<886, 886, 1, 1>>,
     <<895, 895, 1, 116>>, <<902, 902, 1, 38>>, <<904, 906, 1, 37>>, <<908, 908, 1, 64>>,
     <<910, 911, 1, 63>>, <<913, 929, 1, 32>>, <<932, 939, 1, 32>>, <<975, 975, 1, 8>>,
     <<984, 1006, 2, 1>>, <<1012, 1012, 1, -60>>, <<1015, 1015, 1, 1>>, <<1017, 1017, 1, -7>>,
     <<1018, 1018, 1, 1>>, <<1021, 1023, 1, -130>>, <<1024, 1039, 1, 80>>, <<1040, 1071, 1, 32>>,
     <<1120, 1152, 2, 1>>, <<1162, 1214, 2, 1>>, <<1216, 1216, 1, 15>>, <<1217, 1229, 2, 1>>,
     <<1232, 1326, 2, 1>>, <<1329, 1366, 1, 48>>, <<4256, 4293, 1, 7264>>, <<4295, 4295, 1, 7264>>,
     <<4301, 4301, 1, 7264>>, <<5024, 5103, 1, 38864>>, <<5104, 5109, 1, 8>>, <<7312, 7354, 1, -3008>>,
     <<7357, 7359, 1, -3008>>, <<7680, 7828, 2, 1>>, <<7838, 7838, 1, -7615>>, <<7840, 7934, 2, 1>>,
     <<7944, 7951, 1, -8>>, <<7960, 7965, 1, -8>>, <<7976, 7983, 1, -8>>, <<7992, 7999, 1, -8>>,
     <<8008, 8013, 1, -8>>, <<8025, 8031, 2, -8>>, <<8040, 8047, 1, -8>>, <<8072, 8079, 1, -8>>,
     <<8088, 8095, 1, -8>>, <<8104, 8111, 1, -8>>, <<8120, 8121, 1, -8>>, <<8122, 8123, 1, -74>>,
     <<8124, 8124, 1, -9>>, <<8136, 8139, 1, -86>>, <<8140, 8140, 1, -9>>, <<8152, 8153, 1, -8>>,
     <<8154, 8155, 1, -100>>, <<8168, 8169, 1, -8>>, <<8170, 8171, 1, -112>>, <<8172, 8172, 1, -7>>,
     <<8184, 8185, 1, -128>>, <<8186, 8187, 1, -126>>, <<8188, 8188, 1, -9>>, <<8486, 8486, 1, -7517>>,
     <<8490, 8490, 1, -8383>>, <<8491, 8491, 1, -8262>>, <<8498, 8498, 1, 28>>, <<8544, 8559, 1, 16>>,
     <<8579, 8579, 1, 1>>, <<9398, 9423, 1, 26>>, <<11264, 11311, 1, 48>>, <<11360, 11360, 1, 1>>,
     <<11362, 11362, 1, -10743>>, <<11363, 11363, 1, -3814>>, <<11364, 11364, 1, -10727>>, <<11367, 11371, 2, 1>>,
     <<11373, 11373, 1, -10780>>, <<11374, 11374, 1, -10749>>, <<11375, 11375, 1, -10783>>, <<11376, 11376, 1, -10782>>,
     <<11378, 11378, 1, 1>>, <<11381, 11381, 1, 1>>, <<11390, 11391, 1, -10815>>, <<11392, 11490, 2, 1>>,
     <<11499, 11501, 2, 1>>, <<11506, 11506, 1, 1>>, <<42560, 42604, 2, 1>>, <<42624, 42650, 2, 1>>,
     <<42786, 42798, 2, 1>>, <<42802, 42862, 2, 1>>, <<42873, 42875, 2, 1>>, <<42877, 42877, 1, -35332>>,
     <<42878, 42886, 2, 1>>, <<42891, 42891, 1, 1>>, <<42893, 42893, 1, -42280>>, <<42896, 42898, 2, 1>>,
     <<42902, 42920, 2, 1>>, <<42922, 42922, 1, -42308>>, <<42923, 42923, 1, -42319>>, <<42924, 42924, 1, -42315>>,
     <<42925, 42925, 1, -42305>>, <<42926, 42926, 1, -42308>>, <<42928, 42928, 1, -42258>>, <<42929, 42929, 1, -42282>>,
     <<42930, 42930, 1, -42261>>, <<42931, 42931, 1, 928>>, <<42932, 42946, 2, 1>>, <<42948, 42948, 1, -48>>,
     <<42949, 42949, 1, -42307>>, <<42950, 42950, 1, -35384>>, <<42951, 42953, 2, 1>>, <<42960, 42960, 1, 1>>,
     <<42966, 42968, 2, 1>>, <<42997, 42997, 1, 1>>, <<65313, 65338, 1, 32>>, <<66560, 66599, 1, 40>>,
     <<66736, 66771, 1, 40>>, <<66928, 66938, 1, 39>>, <<66940, 66954, 1, 39>>, <<66956, 66962, 1, 39>>,
     <<66964, 66965, 1, 39>>, <<68736, 68786, 1, 64>>, <<71840, 71871, 1, 32>>, <<93760, 93791, 1, 32>>,
     <<125184, 125217, 1, 34>> >>

\* the simple lower-case mapping, as a table
ToLower ==
  LET Run(k) == { c \in LowerRuns[k][1]..LowerRuns[k][2] :
                    (c - LowerRuns[k][1]) % LowerRuns[k][3] = 0 }
      Upper == UNION { Run(k) : k \in 1..Len(LowerRuns) }
      RunOf(c) == CHOOSE k \in 1..Len(LowerRuns) : c \in Run(k)
  IN  [c \in Upper |-> c + LowerRuns[RunOf(c)][4]]

LowerChar(c) == IF c \in DOMAIN ToLower THEN ToLower[c] ELSE c

\* case-ignorable characters, skipped around a capital sigma
CaseIgnorable ==
  CodePoints(
  << <<39, 39>>, <<46, 46>>, <<58, 58>>, <<94, 94>>, <<96, 96>>, <<168, 168>>,
     <<173, 173>>, <<175, 175>>, <<180, 180>>, <<183, 184>>, <<688, 879>>, <<884, 885>>,
     <<890, 890>>, <<900, 901>>, <<903, 903>>, <<1155, 1161>>, <<1369, 1369>>, <<1375, 1375>>,
     <<1425, 1469>>, <<1471, 1471>>, <<1473, 1474>>, <<1476, 1477>>, <<1479, 1479>>, <<1524, 1524>>,
     <<1536, 1541>>, <<1552, 1562>>, <<1564, 1564>>, <<1600, 1600>>, <<1611, 1631>>, <<1648, 1648>>,
     <<1750, 1757>>, <<1759, 1768>>, <<1770, 1773>>, <<1807, 1807>>, <<1809, 1809>>, <<1840, 1866>>,
     <<1958, 1968>>, <<2027, 2037>>, <<2042, 2042>>, <<2045, 2045>>, <<2070, 2093>>, <<2137, 2139>>,
     <<2184, 2184>>, <<2192, 2193>>, <<2200, 2207>>, <<2249, 2306>>, <<2362, 2362>>, <<2364, 2364>>,
     <<2369, 2376>>, <<2381, 2381>>, <<2385, 2391>>, <<2402, 2403>>, <<2417, 2417>>, <<2433, 2433>>,
     <<2492, 2492>>, <<2497, 2500>>, <<2509, 2509>>, <<2530, 2531>>, <<2558, 2558>>, <<2561, 2562>>,
     <<2620, 2620>>, <<2625, 2626>>, <<2631, 2632>>, <<2635, 2637>>, <<2641, 2641>>, <<2672, 2673>>,
     <<2677, 2677>>, <<2689, 2690>>, <<2748, 2748>>, <<2753, 2757>>, <<2759, 2760>>, <<2765, 2765>>,
     <<2786, 2787>>, <<2810, 2815>>, <<2817, 2817>>, <<2876, 2876>>, <<2879, 2879>>, <<2881, 2884>>,
     <<2893, 2893>>, <<2901, 2902>>, <<2914, 2915>>, <<2946, 2946>>, <<3008, 3008>>, <<3021, 3021>>,
     <<3072, 3072>>, <<3076, 3076>>, <<3132, 3132>>, <<3134, 3136>>, <<3142, 3144>>, <<3146, 3149>>,
     <<3157, 3158>>, <<3170, 3171>>, <<3201, 3201>>, <<3260, 3260>>, <<3263, 3263>>, <<3270, 3270>>,
     <<3276, 3277>>, <<3298, 3299>>, <<3328, 3329>>, <<3387, 3388>>, <<3393, 3396>>, <<3405, 3405>>,
     <<3426, 3427>>, <<3457, 3457>>, <<3530, 3530>>, <<3538, 3540>>, <<3542, 3542>>, <<3633, 3633>>,
     <<3636, 3642>>, <<3654, 3662>>, <<3761, 3761>>, <<3764, 3772>>, <<3782, 3782>>, <<3784, 3789>>,
     <<3864, 3865>>, <<3893, 3893>>, <<3895, 3895>>, <<3897, 3897>>, <<3953, 3966>>, <<3968, 3972>>,
     <<3974, 3975>>, <<3981, 3991>>, <<3993, 4028>>, <<4038, 4038>>, <<4141, 4144>>, <<4146, 4151>>,
     <<4153, 4154>>, <<4157, 4158>>, <<4184, 4185>>, <<4190, 4192>>, <<4209, 4212>>, <<4226, 4226>>,
     <<4229, 4230>>, <<4237, 4237>>, <<4253, 4253>>, <<4348, 4348>>, <<4957, 4959>>, <<5906, 5908>>,
     <<5938, 5939>>, <<5970, 5971>>, <<6002, 6003>>, <<6068, 6069>>, <<6071, 6077>>, <<6086, 6086>>,
     <<6089, 6099>>, <<6103, 6103>>, <<6109, 6109>>, <<6155, 6159>>, <<6211, 6211>>, <<6277, 6278>>,
     <<6313, 6313>>, <<6432, 6434>>, <<6439, 6440>>, <<6450, 6450>>, <<6457, 6459>>, <<6679, 6680>>,
     <<6683, 6683>>, <<6742, 6742>>, <<6744, 6750>>, <<6752, 6752>>, <<6754, 6754>>, <<6757, 6764>>,
     <<6771, 6780>>, <<6783, 6783>>, <<6823, 6823>>, <<6832, 6862>>, <<6912, 6915>>, <<6964, 6964>>,
     <<6966, 6970>>, <<6972, 6972>>, <<6978, 6978>>, <<7019, 7027>>, <<7040, 7041>>, <<7074, 7077>>,
     <<7080, 7081>>, <<7083, 7085>>, <<7142, 7142>>, <<7144, 7145>>, <<7149, 7149>>, <<7151, 7153>>,
     <<7212, 7219>>, <<7222, 7223>>, <<7288, 7293>>, <<7376, 7378>>, <<7380, 7392>>, <<7394, 7400>>,
     <<7405, 7405>>, <<7412, 7412>>, <<7416, 7417>>, <<7468, 7530>>, <<7544, 7544>>, <<7579, 7679>>,
     <<8125, 8125>>, <<8127, 8129>>, <<8141, 8143>>, <<8157, 8159>>, <<8173, 8175>>, <<8189, 8190>>,
     <<8203, 8207>>, <<8216, 8217>>, <<8228, 8228>>, <<8231, 8231>>, <<8234, 8238>>, <<8288, 8292>>,
     <<8294, 8303>>, <<8305, 8305>>, <<8319, 8319>>, <<8336, 8348>>, <<8400, 8432>>, <<11388, 11389>>,
     <<11503, 11505>>, <<11631, 11631>>, <<11647, 11647>>, <<11744, 11775>>, <<11823, 11823>>, <<12293, 12293>>,
     <<12330, 12333>>, <<12337, 12341>>, <<12347, 12347>>, <<12441, 12446>>, <<12540, 12542>>, <<40981, 40981>>,
     <<42232, 42237>>, <<42508, 42508>>, <<42607, 42610>>, <<42612, 42621>>, <<42623, 42623>>, <<42652, 42655>>,
     <<42736, 42737>>, <<42752, 42785>>, <<42864, 42864>>, <<42888, 42890>>, <<42994, 42996>>, <<43000, 43001>>,
     <<43010, 43010>>, <<43014, 43014>>, <<43019, 43019>>, <<43045, 43046>>, <<43052, 43052>>, <<43204, 43205>>,
     <<43232, 43249>>, <<43263, 43263>>, <<43302, 43309>>, <<43335, 43345>>, <<43392, 43394>>, <<43443, 43443>>,
     <<43446, 43449>>, <<43452, 43453>>, <<43471, 43471>>, <<43493, 43494>>, <<43561, 43566>>, <<43569, 43570>>,
     <<43573, 43574>>, <<43587, 43587>>, <<43596, 43596>>, <<43632, 43632>>, <<43644, 43644>>, <<43696, 43696>>,
     <<43698, 43700>>, <<43703, 43704>>, <<43710, 43711>>, <<43713, 43713>>, <<43741, 43741>>, <<43756, 43757>>,
     <<43763, 43764>>, <<43766, 43766>>, <<43867, 43871>>, <<43881, 43883>>, <<44005, 44005>>, <<44008, 44008>>,
     <<44013, 44013>>, <<64286, 64286>>, <<64434, 64450>>, <<65024, 65039>>, <<65043, 65043>>, <<65056, 65071>>,
     <<65106, 65106>>, <<65109, 65109>>, <<65279, 65279>>, <<65287, 65287>>, <<65294, 65294>>, <<65306, 65306>>,
     <<65342, 65342>>, <<65344, 65344>>, <<65392, 65392>>, <<65438, 65439>>, <<65507, 65507>>, <<65529, 65531>>,
     <<66045, 66045>>, <<66272, 66272>>, <<66422, 66426>>, <<67456, 67461>>, <<67463, 67504>>, <<67506, 67514>>,
     <<68097, 68099>>, <<68101, 68102>>, <<68108, 68111>>, <<68152, 68154>>, <<68159, 68159>>, <<68325, 68326>>,
     <<68900, 68903>>, <<69291, 69292>>, <<69446, 69456>>, <<69506, 69509>>, <<69633, 69633>>, <<69688, 69702>>,
     <<69744, 69744>>, <<69747, 69748>>, <<69759, 69761>>, <<69811, 69814>>, <<69817, 69818>>, <<69821, 69821>>,
     <<69826, 69826>>, <<69837, 69837>>, <<69888, 69890>>, <<69927, 69931>>, <<69933, 69940>>, <<70003, 70003>>,
     <<70016, 70017>>, <<70070, 70078>>, <<70089, 70092>>, <<70095, 70095>>, <<70191, 70193>>, <<70196, 70196>>,
     <<70198, 70199>>, <<70206, 70206>>, <<70367, 70367>>, <<70371, 70378>>, <<70400, 70401>>, <<70459, 70460>>,
     <<70464, 70464>>, <<70502, 70508>>, <<70512, 70516>>, <<70712, 70719>>, <<70722, 70724>>, <<70726, 70726>>,
     <<70750, 70750>>, <<70835, 70840>>, <<70842, 70842>>, <<70847, 70848>>, <<70850, 70851>>, <<71090, 71093>>,
     <<71100, 71101>>, <<71103, 71104>>, <<71132, 71133>>, <<71219, 71226>>, <<71229, 71229>>, <<71231, 71232>>,
     <<71339, 71339>>, <<71341, 71341>>, <<71344, 71349>>, <<71351, 71351>>, <<71453, 71455>>, <<71458, 71461>>,
     <<71463, 71467>>, <<71727, 71735>>, <<71737, 71738>>, <<71995, 71996>>, <<71998, 71998>>, <<72003, 72003>>,
     <<72148, 72151>>, <<72154, 72155>>, <<72160, 72160>>, <<72193, 72202>>, <<72243, 72248>>, <<72251, 72254>>,
     <<72263, 72263>>, <<72273, 72278>>, <<72281, 72283>>, <<72330, 72342>>, <<72344, 72345>>, <<72752, 72758>>,
     <<72760, 72765>>, <<72767, 72767>>, <<72850, 72871>>, <<72874, 72880>>, <<72882, 72883>>, <<72885, 72886>>,
     <<73009, 73014>>, <<73018, 73018>>, <<73020, 73021>>, <<73023, 73029>>, <<73031, 73031>>, <<73104, 73105>>,
     <<73109, 73109>>, <<73111, 73111>>, <<73459, 73460>>, <<78896, 78904>>, <<92912, 92916>>, <<92976, 92982>>,
     <<92992, 92995>>, <<94031, 94031>>, <<94095, 94111>>, <<94176, 94177>>, <<94179, 94180>>, <<110576, 110579>>,
     <<110581, 110587>>, <<110589, 110590>>, <<113821, 113822>>, <<113824, 113827>>, <<118528, 118573>>, <<118576, 118598>>,
     <<119143, 119145>>, <<119155, 119170>>, <<119173, 119179>>, <<119210, 119213>>, <<119362, 119364>>, <<121344, 121398>>,
     <<121403, 121452>>, <<121461, 121461>>, <<121476, 121476>>, <<121499, 121503>>, <<121505, 121519>>, <<122880, 122886>>,
     <<122888, 122904>>, <<122907, 122913>>, <<122915, 122916>>, <<122918, 122922>>, <<123184, 123197>>, <<123566, 123566>>,
     <<123628, 123631>>, <<125136, 125142>>, <<125252, 125259>>, <<127995, 127999>>, <<917505, 917505>>, <<917536, 917631>>,
     <<917760, 917999>> >>)

\* cased characters (among those that are not case-ignorable, the only
\* ones the sigma rule tests)
Cased ==
  CodePoints(
  << <<65, 90>>, <<97, 122>>, <<170, 170>>, <<181, 181>>, <<186, 186>>, <<192, 214>>,
     <<216, 246>>, <<248, 442>>, <<444, 447>>, <<452, 659>>, <<661, 687>>, <<880, 883>>,
     <<886, 887>>, <<891, 893>>, <<895, 895>>, <<902, 902>>, <<904, 906>>, <<908, 908>>,
     <<910, 929>>, <<931, 1013>>, <<1015, 1153>>, <<1162, 1327>>, <<1329, 1366>>, <<1376, 1416>>,
     <<4256, 4293>>, <<4295, 4295>>, <<4301, 4301>>, <<4304, 4346>>, <<4349, 4351>>, <<5024, 5109>>,
     <<5112, 5117>>, <<7296, 7304>>, <<7312, 7354>>, <<7357, 7359>>, <<7424, 7467>>, <<7531, 7543>>,
     <<7545, 7578>>, <<7680, 7957>>, <<7960, 7965>>, <<7968, 8005>>, <<8008, 8013>>, <<8016, 8023>>,
     <<8025, 8025>>, <<8027, 8027>>, <<8029, 8029>>, <<8031, 8061>>, <<8064, 8116>>, <<8118, 8124>>,
     <<8126, 8126>>, <<8130, 8132>>, <<8134, 8140>>, <<8144, 8147>>, <<8150, 8155>>, <<8160, 8172>>,
     <<8178, 8180>>, <<8182, 8188>>, <<8450, 8450>>, <<8455, 8455>>, <<8458, 8467>>, <<8469, 8469>>,
     <<8473, 8477>>, <<8484, 8484>>, <<8486, 8486>>, <<8488, 8488>>, <<8490, 8493>>, <<8495, 8500>>,
     <<8505, 8505>>, <<8508, 8511>>, <<8517, 8521>>, <<8526, 8526>>, <<8544, 8575>>, <<8579, 8580>>,
     <<9398, 9449>>, <<11264, 11387>>, <<11390, 11492>>, <<11499, 11502>>, <<11506, 11507>>, <<11520, 11557>>,
     <<11559, 11559>>, <<11565, 11565>>, <<42560, 42605>>, <<42624, 42651>>, <<42786, 42863>>, <<42865, 42887>>,
     <<42891, 42894>>, <<42896, 42954>>, <<42960, 42961>>, <<42963, 42963>>, <<42965, 42969>>, <<42997, 42998>>,
     <<43002, 43002>>, <<43824, 43866>>, <<43872, 43880>>, <<43888, 43967>>, <<64256, 64262>>, <<64275, 64279>>,
     <<65313, 65338>>, <<65345, 65370>>, <<66560, 66639>>, <<66736, 66771>>, <<66776, 66811>>, <<66928, 66938>>,
     <<66940, 66954>>, <<66956, 66962>>, <<66964, 66965>>, <<66967, 66977>>, <<66979, 66993>>, <<66995, 67001>>,
     <<67003, 67004>>, <<68736, 68786>>, <<68800, 68850>>, <<71840, 71903>>, <<93760, 93823>>, <<119808, 119892>>,
     <<119894, 119964>>, <<119966, 119967>>, <<119970, 119970>>, <<119973, 119974>>, <<119977, 119980>>, <<119982, 119993>>,
     <<119995, 119995>>, <<119997, 120003>>, <<120005, 120069>>, <<120071, 120074>>, <<120077, 120084>>, <<120086, 120092>>,
     <<120094, 120121>>, <<120123, 120126>>, <<120128, 120132>>, <<120134, 120134>>, <<120138, 120144>>, <<120146, 120485>>,
     <<120488, 120512>>, <<120514, 120538>>, <<120540, 120570>>, <<120572, 120596>>, <<120598, 120628>>, <<120630, 120654>>,
     <<120656, 120686>>, <<120688, 120712>>, <<120714, 120744>>, <<120746, 120770>>, <<120772, 120779>>, <<122624, 122633>>,
     <<122635, 122654>>, <<125184, 125251>>, <<127280, 127305>>, <<127312, 127337>>, <<127344, 127369>> >>)

\* GREEK CAPITAL LETTER SIGMA at s[i] is in final position: it follows a
\* cased character and no cased character follows it, case-ignorable
\* characters skipped on both sides
FinalSigma(s, i) ==
  /\ \E j \in 1..(i - 1) :
        /\ s[j] \notin CaseIgnorable
        /\ s[j] \in Cased
        /\ \A k \in (j + 1)..(i - 1) : s[k] \in CaseIgnorable
  /\ ~ \E j \in (i + 1)..Len(s) :
        /\ s[j] \notin CaseIgnorable
        /\ s[j] \in Cased
        /\ \A k \in (i + 1)..(j - 1) : s[k] \in CaseIgnorable

\* the characters s[i] becomes in s.lower(): capital sigma by its context,
\* capital I with dot above becomes two characters, the others by the table
LowerAt(s, i) ==
  IF s[i] = 931 THEN << IF FinalSigma(s, i) THEN 962 ELSE 963 >>
  ELSE IF s[i] = 304 THEN <<105, 775>>
  ELSE << LowerChar(s[i]) >>

RECURSIVE LowerFrom(_, _)
LowerFrom(s, i) ==
  IF i > Len(s) THEN <<>> ELSE LowerAt(s, i) \o LowerFrom(s, i + 1)

\* str.lower()
lower(s) ==
  IF \A i \in 1..Len(s) : s[i] # 304
  THEN [i \in 1..Len(s) |-> LowerAt(s, i)[1]]
  ELSE LowerFrom(s, 1)

\* str.strip()
strip(s) ==
  IF \A i \in 1..Len(s) : s[i] \in Whitespace
  THEN <<>>
  ELSE LET a == CHOOSE i \in 1..Len(s) :
                  /\ s[i] \notin Whitespace
                  /\ \A j \in 1..(i - 1) : s[j] \in Whitespace
           b == CHOOSE i \in 1..Len(s) :
                  /\ s[i] \notin Whitespace
                  /\ \A j \in (i + 1)..Len(s) : s[j] \in Whitespace
       IN  SubSeq(s, a, b)

\* s[:n]
Take(s, n) == SubSeq(s, 1, IF Len(s) < n THEN Len(s) ELSE n)

\* p in t   (substring test)
Contains(p, t) ==
  \E i \in 1..(Len(t) - Len(p) + 1) :
     /\ t[i] = p[1]
     /\ SubSeq(t, i, i + Len(p) - 1) = p

\* the UTF-8 bytes of one code point
UTF8(c) ==
  IF c < 128 THEN <<c>>
  ELSE IF c < 2048 THEN <<192 + (c \div 64), 128 + (c % 64)>>
  ELSE IF c < 65536
       THEN <<224 + (c \div 4096), 128 + ((c \div 64) % 64), 128 + (c % 64)>>
       ELSE <<240 + (c \div 262144), 128 + ((c \div 4096) % 64),
              128 + ((c \div 64) % 64), 128 + (c % 64)>>

\* str.encode() raises UnicodeEncodeError on a surrogate code point
EncodeRaises(s) == \E i \in 1..Len(s) : s[i] \in 55296..57343

RECURSIVE EncodeFrom(_, _)
EncodeFrom(s, i) ==
  IF i > Len(s) THEN <<>> ELSE UTF8(s[i]) \o EncodeFrom(s, i + 1)

\* str.encode(): the UTF-8 bytes of s, when it does not raise
encode(s) ==
  IF \A i \in 1..Len(s) : s[i] < 128 THEN s ELSE EncodeFrom(s, 1)

(* ------------------------------- cache --------------------------------- *)

\* hashlib.sha256(b).hexdigest(): an injective digest of the bytes
SHA256(b) == <<"sha256", b>>

\* text.strip().lower().encode() raises
cache_key_raises(text) == EncodeRaises(lower(strip(text)))

cache_key(text) == SHA256(encode(lower(strip(text))))

NoKey == <<>>

(* -------------------------------- data --------------------------------- *)

suspicious_phrases ==
  << \* registration fee
     <<114, 101, 103, 105, 115, 116, 114, 97, 116, 105, 111, 110, 32, 102, 101, 101>>,
     \* application fee
     <<97, 112, 112, 108, 105, 99, 97, 116, 105, 111, 110, 32, 102, 101, 101>>,
     \* training fee
     <<116, 114, 97, 105, 110, 105, 110, 103, 32, 102, 101, 101>>,
     \* deposit
     <<100, 101, 112, 111, 115, 105, 116>>,
     \* pay
     <<112, 97, 121>>,
     \* apply immediately
     <<97, 112, 112, 108, 121, 32, 105, 109, 109, 101, 100, 105, 97, 116, 101, 108, 121>>,
     \* limited seats
     <<108, 105, 109, 105, 116, 101, 100, 32, 115, 101, 97, 116, 115>>,
     \* urgent hiring
     <<117, 114, 103, 101, 110, 116, 32, 104, 105, 114, 105, 110, 103>>,
     \* no interview
     <<110, 111, 32, 105, 110, 116, 101, 114, 118, 105, 101, 119>>,
     \* guaranteed placement
     <<103, 117, 97, 114, 97, 110, 116, 101, 101, 100, 32, 112, 108, 97, 99, 101, 109, 101, 110, 116>>,
     \* work from home
     <<119, 111, 114, 107, 32, 102, 114, 111, 109, 32, 104, 111, 109, 101>>,
     \* whatsapp
     <<119, 104, 97, 116, 115, 97, 112, 112>>,
     \* telegram
     <<116, 101, 108, 101, 103, 114, 97, 109>> >>

(* --------------------------- risk analysis ----------------------------- *)

\* the loop "for phrase in suspicious_phrases", continued from index i
\* with the list reasons built so far
RECURSIVE ScanFrom(_, _, _)
ScanFrom(text, i, reasons) ==
  IF i > Len(suspicious_phrases)
  THEN reasons
  ELSE ScanFrom(text, i + 1,
                IF Contains(suspicious_phrases[i], text)
                THEN Append(reasons, suspicious_phrases[i])
                ELSE reasons)

\* variant: the loop leaves after the first matching phrase
MatchedReasons_StopsAtFirst(text) ==
  LET all == ScanFrom(text, 1, <<>>)
  IN  IF all = <<>> THEN <<>> ELSE <<all[1]>>

MatchedReasons(text) == ScanFrom(text, 1, <<>>)

\* score is incremented once per append
Score(text) == Len(MatchedReasons(text))

\* variant: the MEDIUM branch tests score < 2
Classify_OffByOne(score) ==
  IF score = 0
  THEN [risk |-> "LOW RISK", meter |-> 20, trust |-> 85, cls |-> "low"]
  ELSE IF score < 2
       THEN [risk |-> "MEDIUM RISK", meter |-> 60, trust |-> 55, cls |-> "medium"]
       ELSE [risk |-> "HIGH RISK", meter |-> 90, trust |-> 20, cls |-> "high"]

\* the if / elif / else on score
Classify(score) ==
  IF score = 0
  THEN [risk |-> "LOW RISK", meter |-> 20, trust |-> 85, cls |-> "low"]
  ELSE IF score <= 2
       THEN [risk |-> "MEDIUM RISK", meter |-> 60, trust |-> 55, cls |-> "medium"]
       ELSE [risk |-> "HIGH RISK", meter |-> 90, trust |-> 20, cls |-> "high"]

(* --------------------------------- OCR --------------------------------- *)

\* what OCR.space answers for an uploaded image: the call raises, or the
\* JSON says IsErroredOnProcessing, or it carries ParsedResults
extract_text_from_image(reply) ==
  IF reply.raises THEN <<>>
  ELSE IF reply.IsErroredOnProcessing THEN <<>>
  ELSE IF reply.ParsedResults # <<>> THEN lower(reply.ParsedResults[1])
  ELSE <<>>

(* ----------------------------- explanation ----------------------------- *)

\* the literal 'None' used when no phrase matched
None == <<78, 111, 110, 101>>

\* the prompt: "Risk Level: {risk}" and the joined reasons, or 'None'
Prompt(risk, reasons) ==
  [risk |-> risk, indicators |-> IF reasons # <<>> THEN reasons ELSE <<None>>]

NoPrompt == [risk |-> "", indicators |-> <<>>]

\* response.choices[0].message.content.strip()
ai_explanation(content) == strip(content)

\* texts the backend may answer with: a no-break space, some letters a
\* and a line feed
Contents ==
  { <<160>> \o [i \in 1..n |-> 97] \o <<10>> : n \in 1..NumResp }

(* ------------------------------- inputs -------------------------------- *)

t_blank == <<>>

\* a space, a no-break space and a vertical tab
t_spaces == <<32, 160, 11>>

\* "great company, normal interview process"
t_clean ==
  <<103, 114, 101, 97, 116, 32, 99, 111, 109, 112, 97, 110, 121, 44, 32, 110, 111, 114, 109, 97, 108, 32, 105, 110, 116, 101, 114, 118, 105, 101, 119, 32, 112, 114, 111, 99, 101, 115, 115>>

\* " Pay registration fee now, WhatsApp only\n"
t_scam ==
  <<32, 80, 97, 121, 32, 114, 101, 103, 105, 115, 116, 114, 97, 116, 105, 111, 110, 32, 102, 101, 101, 32, 110, 111, 119, 44, 32, 87, 104, 97, 116, 115, 65, 112, 112, 32, 111, 110, 108, 121, 10>>

\* "Deposit via Telegram, " and the capital letters I with dot above,
\* omicron, delta, omicron, sigma
t_medium ==
  <<68, 101, 112, 111, 115, 105, 116, 32, 118, 105, 97, 32, 84, 101, 108, 101, 103, 114, 97, 109, 44, 32, 304, 927, 916, 927, 931>>

\* a text of exactly PrefixLen characters x without any catalog phrase
t_long == [i \in 1..PrefixLen |-> 120]

\* the same first PrefixLen characters, followed by
\* " pay deposit whatsapp telegram"
t_longscam ==
  t_long \o
    <<32, 112, 97, 121, 32, 100, 101, 112, 111, 115, 105, 116, 32, 119, 104, 97, 116, 115, 97, 112, 112, 32, 116, 101, 108, 101, 103, 114, 97, 109>>

\* a leading space, then the same PrefixLen characters, then "pay"
t_lead == <<32>> \o t_long \o <<112, 97, 121>>

\* "pay" and a lone surrogate, as a JSON escape can produce
t_surrogate == <<112, 97, 121>> \o <<55296>>

NoReply == [raises |-> FALSE, IsErroredOnProcessing |-> FALSE, ParsedResults |-> <<>>]

Parsed(t) == [raises |-> FALSE, IsErroredOnProcessing |-> FALSE, ParsedResults |-> <<t>>]

NoFiles == [has_image |-> FALSE, filename |-> <<>>, reply |-> NoReply]

Image(reply) == [has_image |-> TRUE, filename |-> <<97, 46, 112, 110, 103>>, reply |-> reply]

\* request.form["job_text"] and request.files["job_image"] of a POST; the
\* reply of OCR.space is not known yet
Posts ==
  { [job_text |-> t, files |-> NoFiles] :
       t \in {t_blank, t_clean, t_scam, t_long, t_longscam} }
  \cup
  { [job_text |-> t_spaces,
     files |-> [has_image |-> TRUE, filename |-> <<>>, reply |-> NoReply]],
    [job_text |-> t_spaces, files |-> Image(NoReply)],
    [job_text |-> t_medium, files |-> Image(NoReply)] }

\* what OCR.space may answer
Replies ==
  { [NoReply EXCEPT !.raises = TRUE],
    [NoReply EXCEPT !.IsErroredOnProcessing = TRUE],
    NoReply,
    Parsed(t_spaces),
    Parsed(t_scam),
    Parsed(t_lead),
    Parsed(t_surrogate) }

\* the requests with the reply of OCR.space, where one was asked for
Inputs ==
  Posts \cup { [p EXCEPT !.files.reply = reply] : p \in Posts, reply \in Replies }

NoRequest == [job_text |-> <<>>, files |-> NoFiles]

(* ------------------------------- state --------------------------------- *)

NoLocals ==
  [text |-> <<>>, score |-> 0, reasons |-> <<>>, risk |-> "", meter |-> 0,
   trust |-> 0, cls |-> "", key |-> NoKey]

NoGen == [status |-> "none", prompt |-> NoPrompt, val |-> <<>>]

NoResult ==
  [risk |-> "", trust |-> 0, meter |-> 0, class |-> "", reasons |-> <<>>, ai |-> <<>>]

NoResponse == [status |-> 0, error |-> "", has_result |-> FALSE, result |-> NoResult]

Init ==
  /\ request = [r \in Requests |-> NoRequest]
  /\ pc = [r \in Requests |-> "idle"]
  /\ locals = [r \in Requests |-> NoLocals]
  /\ gen = [r \in Requests |-> NoGen]
  /\ response = [r \in Requests |-> NoResponse]
  /\ ai_cache = [k \in {} |-> <<>>]

(* ------------------------------ index() -------------------------------- *)

\* "TEXT INPUT": the stripped, lowercased form field
FormText(req) ==
  LET job_text == strip(req.job_text)
  IN  IF job_text # <<>> THEN lower(job_text) ELSE <<>>

\* "IMAGE INPUT (ONLY if text empty)": the image is sent to OCR
UsesImage(req) ==
  FormText(req) = <<>> /\ req.files.has_image /\ req.files.filename # <<>>

\* "RISK ANALYSIS" and the cache key of a non-empty text (no key is bound
\* when cache_key raises)
Analyse(text) ==
  LET tier == Classify(Score(text))
  IN  [text |-> text, score |-> Score(text), reasons |-> MatchedReasons(text),
       risk |-> tier.risk, meter |-> tier.meter, trust |-> tier.trust,
       cls |-> tier.cls,
       key |-> IF cache_key_raises(Take(text, PrefixLen))
               THEN NoKey
               ELSE cache_key(Take(text, PrefixLen))]

\* variant: the "if not text" return is missing
Analysis_NoEmptyCheck(r, text) ==
  /\ pc' = [pc EXCEPT ![r] = "lookup"]
  /\ locals' = [locals EXCEPT ![r] = Analyse(text)]
  /\ UNCHANGED response

\* from "if not text" to the cache key, with the text the request obtained:
\* the "No text detected" page, or a server error when cache_key raises, or
\* the locals bound up to the cache lookup
Analysis(r, text) ==
  IF text = <<>>
  THEN /\ pc' = [pc EXCEPT ![r] = "empty"]
       /\ response' = [response EXCEPT ![r] =
            [NoResponse EXCEPT !.status = 200, !.error = "No text detected"]]
       /\ UNCHANGED locals
  ELSE IF cache_key_raises(Take(text, PrefixLen))
  THEN /\ pc' = [pc EXCEPT ![r] = "failed"]
       /\ locals' = [locals EXCEPT ![r] = Analyse(text)]
       /\ response' = [response EXCEPT ![r] = [NoResponse EXCEPT !.status = 500]]
  ELSE /\ pc' = [pc EXCEPT ![r] = "lookup"]
       /\ locals' = [locals EXCEPT ![r] = Analyse(text)]
       /\ UNCHANGED response

\* a POST arrives (requests are numbered in order of arrival); the thread
\* either sends the image to OCR.space and waits in requests.post, or goes
\* on with the typed text up to the cache lookup
Receive(r) ==
  /\ pc[r] = "idle"
  /\ IF r = 1 THEN TRUE ELSE pc[r - 1] # "idle"
  /\ \E inp \in Posts :
       /\ request' = [request EXCEPT ![r] = inp]
       /\ IF UsesImage(inp)
          THEN /\ pc' = [pc EXCEPT ![r] = "ocr"]
               /\ UNCHANGED <<locals, response>>
          ELSE Analysis(r, FormText(inp))
  /\ UNCHANGED <<gen, ai_cache>>

\* OCR.space answers (or the call raises) while other requests may have
\* run; extract_text_from_image returns and the thread goes on up to the
\* cache lookup
OcrReturn(r) ==
  /\ pc[r] = "ocr"
  /\ \E reply \in Replies :
       /\ request' = [request EXCEPT ![r].files.reply = reply]
       /\ Analysis(r, extract_text_from_image(reply))
  /\ UNCHANGED <<gen, ai_cache>>

\* variant: the membership test is missing, every request generates
Lookup_AlwaysGenerates(r) ==
  /\ pc[r] = "lookup"
  /\ pc' = [pc EXCEPT ![r] = "generate"]
  /\ gen' = [gen EXCEPT ![r] =
       [status |-> "pending",
        prompt |-> Prompt(locals[r].risk, locals[r].reasons),
        val |-> <<>>]]
  /\ UNCHANGED <<request, locals, response, ai_cache>>

\* "if key not in ai_cache": on a miss the thread calls ai_explanation
Lookup(r) ==
  /\ pc[r] = "lookup"
  /\ IF locals[r].key \notin DOMAIN ai_cache
     THEN /\ pc' = [pc EXCEPT ![r] = "generate"]
          /\ gen' = [gen EXCEPT ![r] =
               [status |-> "pending",
                prompt |-> Prompt(locals[r].risk, locals[r].reasons),
                val |-> <<>>]]
     ELSE /\ pc' = [pc EXCEPT ![r] = "respond"]
          /\ UNCHANGED gen
  /\ UNCHANGED <<request, locals, response, ai_cache>>

\* the backend answers, ai_explanation returns the stripped content and
\* the statement that called it assigns the value to ai_cache[key]
GenReturn(r) ==
  /\ pc[r] = "generate"
  /\ \E content \in Contents :
       LET val == ai_explanation(content)
       IN  /\ gen' = [gen EXCEPT ![r].status = "ok", ![r].val = val]
           /\ ai_cache' = [k \in DOMAIN ai_cache \cup {locals[r].key} |->
                             IF k = locals[r].key THEN val ELSE ai_cache[k]]
  /\ pc' = [pc EXCEPT ![r] = "respond"]
  /\ UNCHANGED <<request, locals, response>>

\* variant: the exception is swallowed and an empty explanation is stored
GenRaise_CachesFailure(r) ==
  /\ pc[r] = "generate"
  /\ gen' = [gen EXCEPT ![r].status = "raised"]
  /\ ai_cache' = [k \in DOMAIN ai_cache \cup {locals[r].key} |->
                    IF k = locals[r].key THEN <<>> ELSE ai_cache[k]]
  /\ pc' = [pc EXCEPT ![r] = "respond"]
  /\ UNCHANGED <<request, locals, response>>

\* the backend call raises; the exception leaves index() before the
\* assignment to ai_cache[key] and the request ends as a server error
GenRaise(r) ==
  /\ pc[r] = "generate"
  /\ gen' = [gen EXCEPT ![r].status = "raised"]
  /\ pc' = [pc EXCEPT ![r] = "failed"]
  /\ response' = [response EXCEPT ![r] = [NoResponse EXCEPT !.status = 500]]
  /\ UNCHANGED <<request, locals, ai_cache>>

\* result = {...  "ai": ai_cache[key]} and the page is rendered
Respond(r) ==
  /\ pc[r] = "respond"
  /\ locals[r].key \in DOMAIN ai_cache
  /\ response' = [response EXCEPT ![r] =
       [status |-> 200, error |-> "", has_result |-> TRUE,
        result |-> [risk |-> locals[r].risk, trust |-> locals[r].trust,
                    meter |-> locals[r].meter, class |-> locals[r].cls,
                    reasons |-> locals[r].reasons,
                    ai |-> ai_cache[locals[r].key]]]]
  /\ pc' = [pc EXCEPT ![r] = "done"]
  /\ UNCHANGED <<request, locals, gen, ai_cache>>

Next ==
  \E r \in Requests :
     \/ Receive(r)
     \/ OcrReturn(r)
     \/ Lookup(r)
     \/ GenReturn(r)
     \/ GenRaise(r)
     \/ Respond(r)

Spec == Init /\ [][Next]_vars

(* ------------------------ vocabulary of the claims --------------------- *)

\* trimmed, lowercased text
normalize(T) == lower(strip(T))

\* the text a request submits: the typed text, or else the text OCR read
\* from the uploaded image, or else nothing
SourceText(req) ==
  IF \E i \in 1..Len(req.job_text) : req.job_text[i] \notin Whitespace
  THEN req.job_text
  ELSE IF /\ req.files.has_image
          /\ req.files.filename # <<>>
          /\ ~req.files.reply.raises
          /\ ~req.files.reply.IsErroredOnProcessing
          /\ req.files.reply.ParsedResults # <<>>
       THEN req.files.reply.ParsedResults[1]
       ELSE <<>>

\* the request has its text (typed, or read by OCR, or none)
HasText(r) == pc[r] \notin {"idle", "ocr"}

\* the request went through risk analysis
Scored(r) == pc[r] \in {"lookup", "generate", "respond", "done", "failed"}

\* the request called ai_explanation
Called(r) == gen[r].status # "none"

\* the request rendered a result page
Completed(r) == pc[r] = "done" /\ response[r].has_result

\* number of generator calls made for key k
CallCount(k) == Cardinality({r \in Requests : Called(r) /\ locals[r].key = k})

\* the catalog phrases that are substrings of T, in catalog order
PhrasesIn(T) ==
  LET Occurs(p) == Contains(p, T)
  IN  SelectSeq(suspicious_phrases, Occurs)

\* for every input, the catalog phrases in its trimmed, lowercased text
ExpectedReasons ==
  [inp \in Inputs |-> PhrasesIn(normalize(SourceText(inp)))]

\* requests other than r that have written the entry of r's key
OtherWriters(r) ==
  {q \in Requests \ {r} : /\ locals[q].key = locals[r].key
                          /\ gen[q].status = "ok"
                          /\ pc[q] \in {"respond", "done"}}

(* -------------------------------- claims ------------------------------- *)

\* C1: for every cache key the explanation generator is invoked at most
\* once over the lifetime of the process, also for concurrent requests.
C1_AtMostOneCallPerKey ==
  \A r \in Requests : Scored(r) => CallCount(locals[r].key) <= 1

\* C2: a failing generator call leaves ai_cache unchanged (the failure is
\* not cached: every entry holds the value of a successful call); a request
\* that then finds the key absent invokes the generator again, and on
\* success its result is stored and, no other request having written the
\* key, returned.
C2_FailureNotCached ==
  /\ [][\A r \in Requests :
          /\ (gen[r].status = "pending" /\ gen'[r].status = "raised")
                => ai_cache' = ai_cache
          /\ (pc[r] = "lookup" /\ pc'[r] # "lookup"
                /\ locals[r].key \notin DOMAIN ai_cache)
                => gen'[r].status = "pending"
          /\ (gen[r].status = "pending" /\ gen'[r].status = "ok")
                => /\ locals[r].key \in DOMAIN ai_cache'
                   /\ ai_cache'[locals[r].key] = gen'[r].val]_vars
  /\ [](\A k \in DOMAIN ai_cache :
          \E r \in Requests : /\ locals[r].key = k
                              /\ gen[r].status = "ok"
                              /\ gen[r].val = ai_cache[k])
  /\ [](\A r \in Requests :
          (Completed(r) /\ gen[r].status = "ok" /\ OtherWriters(r) = {})
             => /\ response[r].result.ai = gen[r].val
                /\ ai_cache[locals[r].key] = gen[r].val)

\* C2 witness: one request's generator call failed, another request with
\* the same key generated, stored and returned its own result.
C2_Witness ==
  \E r1, r2 \in Requests :
     /\ gen[r1].status = "raised"
     /\ locals[r2].key = locals[r1].key
     /\ Completed(r2)
     /\ gen[r2].status = "ok"
     /\ response[r2].result.ai = gen[r2].val
     /\ ai_cache[locals[r2].key] = gen[r2].val

\* C3: a cache entry, once created, is never changed and never removed.
C3_EntriesImmutable ==
  [][\A k \in DOMAIN ai_cache :
        k \in DOMAIN ai_cache' /\ ai_cache'[k] = ai_cache[k]]_vars

\* C4: a request that finds its key present does not invoke the generator
\* and does not modify the cache, and returns the explanation stored under
\* its key.
C4_HitIsSideEffectFree ==
  [][\A r \in Requests :
        /\ (pc[r] = "lookup" /\ pc'[r] # "lookup"
              /\ locals[r].key \in DOMAIN ai_cache)
              => /\ pc'[r] = "respond"
                 /\ gen'[r].status = "none"
                 /\ ai_cache' = ai_cache
        /\ (pc[r] = "respond" /\ pc'[r] # "respond" /\ gen[r].status = "none")
              => /\ ai_cache' = ai_cache
                 /\ Completed(r)'
                 /\ response'[r].result.ai = ai_cache[locals[r].key]]_vars

\* C4 witness: a request completed on a cache hit, without a generator call.
C4_Witness ==
  \E r \in Requests :
     /\ Completed(r)
     /\ ~Called(r)
     /\ response[r].result.ai = ai_cache[locals[r].key]

\* C5: two requests whose texts map to the same cache key return the same
\* explanation, also when they run concurrently.
C5_SameKeySameExplanation ==
  \A r1, r2 \in Requests :
     (Completed(r1) /\ Completed(r2) /\ locals[r1].key = locals[r2].key)
        => response[r1].result.ai = response[r2].result.ai

\* C6: request texts (typed or OCR-extracted) whose trimmed, lowercased
\* forms agree on the first 120 characters get the same cache key.
C6_SamePrefixSameKey ==
  \A r1, r2 \in Requests :
     (/\ Scored(r1)
      /\ Scored(r2)
      /\ Take(normalize(SourceText(request[r1])), PrefixLen)
           = Take(normalize(SourceText(request[r2])), PrefixLen))
        => locals[r1].key = locals[r2].key

\* C7: the tier is LOW (meter 20, trust 85, class low) iff the count is 0,
\* MEDIUM (60, 55, medium) iff it is 1 or 2, HIGH (90, 20, high) iff it is
\* 3 or more; every count gets one of the three tiers.
C7_TierClassification ==
  \A r \in Requests :
     Scored(r) =>
       LET l == locals[r]
           tier == <<l.risk, l.meter, l.trust, l.cls>>
       IN  /\ l.score >= 0
           /\ tier \in {<<"LOW RISK", 20, 85, "low">>,
                        <<"MEDIUM RISK", 60, 55, "medium">>,
                        <<"HIGH RISK", 90, 20, "high">>}
           /\ (tier = <<"LOW RISK", 20, 85, "low">>) <=> (l.score = 0)
           /\ (tier = <<"MEDIUM RISK", 60, 55, "medium">>) <=> (l.score \in {1, 2})
           /\ (tier = <<"HIGH RISK", 90, 20, "high">>) <=> (l.score >= 3)
           /\ Completed(r) =>
                <<response[r].result.risk, response[r].result.meter,
                  response[r].result.trust, response[r].result.class>> = tier

\* C7 witness: requests with counts on both sides of the MEDIUM / HIGH
\* boundary, one of them above 3, have been classified.
C7_Witness ==
  \E r1, r2 \in Requests :
     /\ Completed(r1) /\ locals[r1].score = 2
     /\ Completed(r2) /\ locals[r2].score > 3

\* C8: the score is the number of catalog phrases that are substrings of
\* the trimmed, lowercased text, and the reasons are exactly those phrases
\* in catalog order, each at most once.
C8_ScoreCountsCatalogPhrases ==
  \A r \in Requests :
     Scored(r) =>
       LET reasons == locals[r].reasons
       IN  /\ reasons = ExpectedReasons[request[r]]
           /\ locals[r].score = Len(reasons)
           /\ \A i, j \in 1..Len(reasons) : reasons[i] = reasons[j] => i = j
           /\ Completed(r) => response[r].result.reasons = reasons

\* C8 witness: a text with several phrases, not in catalog order in the
\* text, and with upper-case letters and surrounding whitespace, was scored.
C8_Witness ==
  \E r \in Requests :
     /\ Completed(r)
     /\ SourceText(request[r]) = t_scam
     /\ locals[r].score = 3

\* C9: a request with empty input text ends with 'No text detected', with
\* no score computed, no generator call and ai_cache untouched.
C9_EmptyInput ==
  /\ [](\A r \in Requests :
          (HasText(r) /\ SourceText(request[r]) = <<>>)
             => /\ pc[r] = "empty"
                /\ response[r].error = "No text detected"
                /\ ~response[r].has_result
                /\ locals[r] = NoLocals
                /\ gen[r] = NoGen)
  /\ [][\A r \in Requests :
          (~HasText(r) /\ HasText(r)' /\ SourceText(request'[r]) = <<>>)
             => ai_cache' = ai_cache]_vars

\* C9 witness: a request ended as empty input while the cache held entries.
C9_Witness ==
  \E r \in Requests :
     /\ pc[r] = "empty"
     /\ SourceText(request[r]) = <<>>
     /\ DOMAIN ai_cache # {}

\* C10: the explanation in a completed request's result was generated by a
\* call of ai_explanation with that request's risk tier and reasons.
C10_ExplanationMatchesResult ==
  \A r \in Requests :
     Completed(r) =>
       \E q \in Requests :
          /\ gen[q].status = "ok"
          /\ gen[q].val = response[r].result.ai
          /\ gen[q].prompt.risk = response[r].result.risk
          /\ gen[q].prompt.indicators =
               (IF response[r].result.reasons # <<>>
                THEN response[r].result.reasons ELSE <<None>>)

====
